---- MODULE Spec2Model ----
(***************************************************************************)
(* Model of src/logic.py: the simulation core of the "balls" toy           *)
(* (Color, Ball, DeleteZone, GameLogic).                                   *)
(*                                                                         *)
(* Floats.  Positions, velocities and radii are Python floats.  They are   *)
(* modelled in fixed point: an integer n stands for n / Scale pixels, and  *)
(* a product with a fractional constant is rounded to the nearest unit     *)
(* (FMul).  Comparisons, clamps and assignments are those of the code.     *)
(* Distances are compared through their squares: math.sqrt is strictly     *)
(* monotone on the squared distances that occur here.                      *)
(*                                                                         *)
(* Identity.  A Ball is an index into heap (the k-th Ball constructed), a  *)
(* Color object is color.obj (the k-th Color constructed).  Ball equality  *)
(* (BallEq) is the dataclass __eq__, which is not identity.                *)
(***************************************************************************)
EXTENDS Integers, Sequences, FiniteSets, TLC

VARIABLES
    screen_width,   \* GameLogic.screen_width
    screen_height,  \* GameLogic.screen_height
    delete_zone,    \* GameLogic.delete_zone: [x, y, width, height]
    heap,           \* every Ball constructed so far: id -> [x, y, vx, vy, radius, color]
    balls,          \* GameLogic.balls: list of Ball ids
    inventory,      \* GameLogic.inventory: list of Ball ids
    nColors,        \* number of Color objects constructed so far
    nCalls,         \* number of calls made so far
    suckTime,       \* per Ball: value of nCalls when it was last sucked (0: never)
    prevSucked,     \* the Ball the call before the last returned, if that was suck_ball
    lastOp,         \* the last call made
    lastArg,        \* its arguments
    ret,            \* its return value (None or a Ball id)
    tickStart,      \* balls as it was when the last update started
    advanced,       \* per Ball: times the last update ran its per-ball step on it
    collLog,        \* the pairs examined by the last update's collision pass
    mixIn,          \* arguments of the last direct _mix_colors call
    mixOut          \* its result

vars == <<screen_width, screen_height, delete_zone, heap, balls, inventory,
          nColors, nCalls, suckTime, prevSucked, lastOp, lastArg, ret,
          tickStart, advanced, collLog, mixIn, mixOut>>

gameVars == <<screen_width, screen_height, delete_zone, heap, balls, inventory,
              nColors, nCalls, suckTime, prevSucked, lastOp, lastArg, ret,
              tickStart, advanced, collLog>>

---------------------------------------------------------------------------
(* Bounds of the model *)

MaxBalls == 3
MaxCalls == 6
ChanLevels == 3

---------------------------------------------------------------------------
(* Numbers *)

Scale == 100
None == 0

friction == 98
gravity == 20
Restitution == 70
DefaultRadius == 1500
ZoneSize == 10000
SuckRadius == 5000
SpitVelocity == 500

Px(n) == n * Scale

Abs(n) == IF n < 0 THEN -n ELSE n
Min(a, b) == IF a < b THEN a ELSE b
Max(a, b) == IF a > b THEN a ELSE b

\* a * (k / Scale), rounded to the nearest unit
FMul(a, k) ==
    LET p == Abs(a) * k
        q == (2 * p + Scale) \div (2 * Scale)
    IN  IF a < 0 THEN -q ELSE q

Range(s) == {s[i] : i \in 1..Len(s)}

---------------------------------------------------------------------------
(* Color *)

Clamp255(v) == Max(0, Min(255, v))

\* Color.__init__: the o-th Color object, its channels clamped
Color(o, r, g, b) == [obj |-> o, rgb |-> <<Clamp255(r), Clamp255(g), Clamp255(b)>>]

---------------------------------------------------------------------------
(* _mix_colors.  Its float expressions are modelled by exact rationals.    *)
(* int(e) truncates; when the exact value of e is a positive integer n,    *)
(* the rounding of the float operations can leave e just under n, so that  *)
(* int(e) is n - 1: the model admits both outcomes.  int(v * 1.1),         *)
(* int(v * 1.2) and int(v * 0.7) are functions of one channel value and    *)
(* are modelled exactly for every v in 0..255.                             *)

\* the possible values of int(num / den), num >= 0, den > 0
IntCast(num, den) ==
    IF num > 0 /\ num % den = 0 THEN {num \div den - 1, num \div den}
    ELSE {num \div den}

Sum3(c) == c[1] + c[2] + c[3]

\* int((a * weight1 + b * weight2) * 0.8 + (a * b / 255.0) * 0.2), where
\* weight_k = brightness_k / total_brightness and s1, s2 are the channel sums
\* (3 * brightness); a total brightness under 0.1 is replaced by 0.1, which
\* happens only when both colours are black
BlendChannel(a, b, s1, s2) ==
    IF s1 + s2 = 0 THEN {0}
    ELSE IntCast(4 * 255 * (a * s1 + b * s2) + (s1 + s2) * a * b, 5 * 255 * (s1 + s2))

Triples(R, G, B) == {<<r, g, b>> : r \in R, g \in G, b \in B}

\* lines 179-196
Blend(c1, c2) ==
    LET s1 == Sum3(c1)
        s2 == Sum3(c2)
    IN  Triples(BlendChannel(c1[1], c2[1], s1, s2),
                BlendChannel(c1[2], c2[2], s1, s2),
                BlendChannel(c1[3], c2[3], s1, s2))

Mul11(v) == (11 * v) \div 10
Mul12(v) == (12 * v) \div 10
\* int(v * 0.7): 0.7 is just under 7/10 as a float, and for these three
\* values the product stays under the integer 7v/10
Mul07(v) == IF v \in {90, 170, 180} THEN (7 * v) \div 10 - 1 ELSE (7 * v) \div 10

\* lines 200-213
Saturate(c) ==
    LET max_component == Max(Max(c[1], c[2]), Max(c[3], 1))
        Up(v) == {Min(255, w) : w \in IntCast(v * 255 * 7, 10 * max_component)}
    IN  IF max_component < 128
        THEN Triples(Up(c[1]), Up(c[2]), Up(c[3]))
        ELSE {<<Min(255, Mul11(c[1])), Min(255, Mul11(c[2])), Min(255, Mul11(c[3]))>>}

\* variance < 30 and avg > 200, with avg = (r + g + b) / 3 and
\* variance = |r - avg| + |g - avg| + |b - avg| (both scaled by 3)
NearWhite(c) ==
    LET s == Sum3(c)
    IN  /\ Abs(3 * c[1] - s) + Abs(3 * c[2] - s) + Abs(3 * c[3] - s) < 90
        /\ s > 600

\* Desaturate without the near-white correction
DesaturateSkipped(c) == c

\* lines 217-234
Desaturate(c) ==
    LET r == c[1]
        g == c[2]
        b == c[3]
    IN  IF NearWhite(c)
        THEN IF r > g /\ r > b
             THEN <<Min(255, Mul12(r)), Max(0, Mul07(g)), Max(0, Mul07(b))>>
             ELSE IF g > r /\ g > b
             THEN <<Max(0, Mul07(r)), Min(255, Mul12(g)), Max(0, Mul07(b))>>
             ELSE <<Max(0, Mul07(r)), Max(0, Mul07(g)), Min(255, Mul12(b))>>
        ELSE c

\* the channels before the near-white test (line 215)
Saturated(c1, c2) == UNION {Saturate(m) : m \in Blend(c1, c2)}

\* _mix_colors(color1, color2): the channels of the Color it can return
MixColors(c1, c2) ==
    {Color(0, d[1], d[2], d[3]).rgb : d \in {Desaturate(m) : m \in Saturated(c1, c2)}}

---------------------------------------------------------------------------
(* Ball *)

Ball(x, y, color) ==
    [x |-> x, y |-> y, vx |-> 0, vy |-> 0, radius |-> DefaultRadius, color |-> color]

\* dataclass __eq__: field by field; Color defines no __eq__, so the color
\* fields are equal iff they are the same object
BallEq(a, b) ==
    /\ a.x = b.x /\ a.y = b.y /\ a.vx = b.vx /\ a.vy = b.vy
    /\ a.radius = b.radius /\ a.color.obj = b.color.obj

DistSq(x1, y1, x2, y2) == (x1 - x2) * (x1 - x2) + (y1 - y2) * (y1 - y2)

\* Ball.is_colliding: distance < radius + other.radius
is_colliding(a, b) ==
    DistSq(a.x, a.y, b.x, b.y) < (a.radius + b.radius) * (a.radius + b.radius)

---------------------------------------------------------------------------
(* DeleteZone *)

DeleteZone(x, y, w, h) == [x |-> x, y |-> y, width |-> w, height |-> h]

contains(z, b) ==
    /\ z.x <= b.x /\ b.x <= z.x + z.width
    /\ z.y <= b.y /\ b.y <= z.y + z.height

---------------------------------------------------------------------------
(* list operations on lists of Ball ids *)

\* index of the first element equal (==) to Ball b, 0 when there is none
RECURSIVE IndexFrom(_, _, _, _)
IndexFrom(list, h, b, i) ==
    IF i > Len(list) THEN 0
    ELSE IF list[i] = b \/ BallEq(h[list[i]], h[b]) THEN i
    ELSE IndexFrom(list, h, b, i + 1)

\* b in list
ListContains(list, h, b) == IndexFrom(list, h, b, 1) # 0

RemoveAt(list, i) == SubSeq(list, 1, i - 1) \o SubSeq(list, i + 1, Len(list))

\* list.remove(b): drops the first element equal to b
ListRemove(list, h, b) == RemoveAt(list, IndexFrom(list, h, b, 1))

---------------------------------------------------------------------------
(* Inputs *)

ScreenSizes == {<<Px(200), Px(150)>>, <<Px(90), Px(150)>>}

AddPositions == {<<Px(150), Px(50)>>, <<Px(60), Px(140)>>, <<Px(80), Px(140)>>}

\* random.randint(50, 255) for each channel of a default colour
RandomColors == {<<250, 60, 60>>}

SuckPositions == {<<Px(70), Px(120)>>, <<Px(60), Px(120)>>}

SpitPositions == {<<Px(70), Px(120)>>, <<Px(10), Px(10)>>}

DtValues == {1}

\* (cos(angle), sin(angle)) * velocity for some angles in [0, 2 pi)
SpitDirs == {<<SpitVelocity, 0>>, <<0 - (3 * SpitVelocity) \div 5, (4 * SpitVelocity) \div 5>>}

---------------------------------------------------------------------------
(* GameLogic *)

Init ==
    /\ screen_width = Px(200)
    /\ screen_height = Px(150)
    /\ delete_zone = DeleteZone(Px(200) - ZoneSize, 0, ZoneSize, ZoneSize)
    /\ heap = <<>>
    /\ balls = <<>>
    /\ inventory = <<>>
    /\ nColors = 0
    /\ nCalls = 0
    /\ suckTime = <<>>
    /\ prevSucked = None
    /\ lastOp = "init"
    /\ lastArg = <<>>
    /\ ret = None
    /\ tickStart = <<>>
    /\ advanced = <<>>
    /\ collLog = <<>>
    /\ mixIn = <<>>
    /\ mixOut = <<>>

Called(op, arg, r) ==
    /\ nCalls < MaxCalls
    /\ nCalls' = nCalls + 1
    /\ prevSucked' = IF lastOp = "suck_ball" THEN ret ELSE None
    /\ lastOp' = op
    /\ lastArg' = arg
    /\ ret' = r

NoTick ==
    /\ tickStart' = <<>>
    /\ advanced' = <<>>
    /\ collLog' = <<>>

\* add_ball(x, y, color=None): Ball.__post_init__ draws a random colour
add_ball(x, y, rgb) ==
    /\ Len(heap) < MaxBalls
    /\ LET id == Len(heap) + 1
           ball == Ball(x, y, Color(nColors + 1, rgb[1], rgb[2], rgb[3]))
       IN  /\ heap' = Append(heap, ball)
           /\ balls' = Append(balls, id)
           /\ suckTime' = Append(suckTime, 0)
           /\ Called("add_ball", <<x, y>>, id)
    /\ nColors' = nColors + 1
    /\ NoTick
    /\ UNCHANGED <<screen_width, screen_height, delete_zone, inventory, mixIn, mixOut>>

\* remove_ball(ball): "ball in self.balls" and list.remove compare with ==
remove_ball(b) ==
    /\ balls' = IF ListContains(balls, heap, b) THEN ListRemove(balls, heap, b)
                ELSE balls
    /\ Called("remove_ball", <<b>>, None)
    /\ NoTick
    /\ UNCHANGED <<screen_width, screen_height, delete_zone, heap, inventory,
                   nColors, suckTime, mixIn, mixOut>>

\* Closest with "<=" for "<": a later Ball at the same distance wins
RECURSIVE ClosestOnTieLast(_, _, _, _, _, _, _)
ClosestOnTieLast(list, h, mx, my, i, closest_ball, min_distance) ==
    IF i > Len(list) THEN closest_ball
    ELSE LET distance == DistSq(h[list[i]].x, h[list[i]].y, mx, my)
         IN  IF distance <= min_distance
             THEN ClosestOnTieLast(list, h, mx, my, i + 1, list[i], distance)
             ELSE ClosestOnTieLast(list, h, mx, my, i + 1, closest_ball, min_distance)

\* the scan of suck_ball: the closest Ball so far and its distance (squared);
\* only a strictly smaller distance replaces it
RECURSIVE Closest(_, _, _, _, _, _, _)
Closest(list, h, mx, my, i, closest_ball, min_distance) ==
    IF i > Len(list) THEN closest_ball
    ELSE LET distance == DistSq(h[list[i]].x, h[list[i]].y, mx, my)
         IN  IF distance < min_distance
             THEN Closest(list, h, mx, my, i + 1, list[i], distance)
             ELSE Closest(list, h, mx, my, i + 1, closest_ball, min_distance)

\* suck_ball(mouse_x, mouse_y, radius=50.0)
suck_ball(mx, my) ==
    LET closest_ball == Closest(balls, heap, mx, my, 1, None, SuckRadius * SuckRadius)
    IN  IF closest_ball # None
        THEN /\ balls' = ListRemove(balls, heap, closest_ball)
             /\ inventory' = Append(inventory, closest_ball)
             /\ suckTime' = [suckTime EXCEPT ![closest_ball] = nCalls + 1]
             /\ Called("suck_ball", <<mx, my>>, closest_ball)
             /\ NoTick
             /\ UNCHANGED <<screen_width, screen_height, delete_zone, heap, nColors,
                            mixIn, mixOut>>
        ELSE /\ Called("suck_ball", <<mx, my>>, None)
             /\ NoTick
             /\ UNCHANGED <<screen_width, screen_height, delete_zone, heap, balls,
                            inventory, nColors, suckTime, mixIn, mixOut>>

\* Pop that leaves the element in the list
PopKeeps(list) == [item |-> list[Len(list)], rest |-> list]

\* Pop from the front: inventory.pop(0)
PopFirst(list) == [item |-> list[1], rest |-> SubSeq(list, 2, Len(list))]

\* inventory.pop(): the last element and the list without it
Pop(list) == [item |-> list[Len(list)], rest |-> SubSeq(list, 1, Len(list) - 1)]

\* Spat without the assignment to ball.y
SpatKeepsY(b, mx, my, dir) == [b EXCEPT !.x = mx, !.vx = dir[1], !.vy = dir[2]]

\* the Ball as spit_ball leaves it: at the mouse, with velocity
\* (cos(angle), sin(angle)) * velocity
Spat(b, mx, my, dir) == [b EXCEPT !.x = mx, !.y = my, !.vx = dir[1], !.vy = dir[2]]

\* spit_ball(mouse_x, mouse_y, velocity=5.0); dir is the random direction
spit_ball(mx, my, dir) ==
    IF inventory = <<>>
    THEN /\ Called("spit_ball", <<mx, my>>, None)
         /\ NoTick
         /\ UNCHANGED <<screen_width, screen_height, delete_zone, heap, balls,
                        inventory, nColors, suckTime, mixIn, mixOut>>
    ELSE LET popped == Pop(inventory)
             ball == popped.item
         IN  /\ inventory' = popped.rest
             /\ heap' = [heap EXCEPT ![ball] = Spat(heap[ball], mx, my, dir)]
             /\ balls' = Append(balls, ball)
             /\ Called("spit_ball", <<mx, my>>, ball)
             /\ NoTick
             /\ UNCHANGED <<screen_width, screen_height, delete_zone, nColors,
                            suckTime, mixIn, mixOut>>

clear_inventory ==
    /\ inventory' = <<>>
    /\ Called("clear_inventory", <<>>, None)
    /\ NoTick
    /\ UNCHANGED <<screen_width, screen_height, delete_zone, heap, balls, nColors,
                   suckTime, mixIn, mixOut>>

set_screen_size(width, height) ==
    /\ screen_width' = width
    /\ screen_height' = height
    /\ delete_zone' = DeleteZone(width - ZoneSize, 0, ZoneSize, ZoneSize)
    /\ Called("set_screen_size", <<width, height>>, None)
    /\ NoTick
    /\ UNCHANGED <<heap, balls, inventory, nColors, suckTime,
                   mixIn, mixOut>>

\* lines 117-140: one Ball moved, slowed and bounced off the walls
Advance(b, dt, width, height) ==
    LET x1 == b.x + b.vx * dt
        y1 == b.y + b.vy * dt
        vx1 == FMul(b.vx, friction)
        vy1 == FMul(b.vy + gravity * dt, friction)
        hitX == x1 - b.radius < 0 \/ x1 + b.radius > width
        hitY == y1 - b.radius < 0 \/ y1 + b.radius > height
    IN  [b EXCEPT
           !.x = IF x1 - b.radius < 0 THEN b.radius
                 ELSE IF x1 + b.radius > width THEN width - b.radius ELSE x1,
           !.vx = IF hitX THEN FMul(-vx1, Restitution) ELSE vx1,
           !.y = IF y1 - b.radius < 0 THEN b.radius
                 ELSE IF y1 + b.radius > height THEN height - b.radius ELSE y1,
           !.vy = IF hitY THEN FMul(-vy1, Restitution) ELSE vy1]

\* lines 115-144: "for ball in self.balls" reads self.balls[i] for i = 0, 1, ...
\* while i < len(self.balls), and remove_ball shortens the list under it
RECURSIVE UpdateLoop(_, _, _, _, _, _, _, _)
UpdateLoop(i, list, h, adv, dt, width, height, zone) ==
    IF i > Len(list) THEN [balls |-> list, heap |-> h, advanced |-> adv]
    ELSE LET ball == list[i]
             h2 == [h EXCEPT ![ball] = Advance(h[ball], dt, width, height)]
             list2 == IF contains(zone, h2[ball]) /\ ListContains(list, h2, ball)
                      THEN ListRemove(list, h2, ball)
                      ELSE list
         IN  UpdateLoop(i + 1, list2, h2, [adv EXCEPT ![ball] = @ + 1],
                        dt, width, height, zone)

\* the inner loop over self.balls[i:]
InnerStartAtSelf(i) == i

\* line 154: the inner loop runs over self.balls[i + 1:]
InnerStart(i) == i + 1

\* the index pairs (i, j) in the order the two loops of lines 153-154 visit them
RECURSIVE PairsFrom(_, _, _)
PairsFrom(i, j, n) ==
    IF i > n THEN <<>>
    ELSE IF j > n THEN PairsFrom(i + 1, InnerStart(i + 1), n)
    ELSE <<<<i, j>>>> \o PairsFrom(i, j + 1, n)

Pairs(n) == PairsFrom(1, InnerStart(1), n)

\* pair_id: tuple(sorted([id(ball1), id(ball2)]))
PairId(a, b) == IF a <= b THEN <<a, b>> ELSE <<b, a>>

\* lines 155-165 for the pairs from the k-th on: the set of possible outcomes
RECURSIVE Collide(_, _, _, _)
Collide(pairs, k, list, st) ==
    IF k > Len(pairs) THEN {st}
    ELSE LET ball1 == list[pairs[k][1]]
             ball2 == list[pairs[k][2]]
             c1 == st.heap[ball1].color
             c2 == st.heap[ball2].color
             pair_id == PairId(ball1, ball2)
             Skip == [st EXCEPT !.log = Append(@, [pair |-> <<ball1, ball2>>,
                                                    mixed |-> FALSE,
                                                    before |-> <<c1, c2>>,
                                                    after |-> <<c1, c2>>])]
             Mixed(rgb) ==
                 LET new_color == Color(st.nColors + 1, rgb[1], rgb[2], rgb[3])
                 IN  [heap |-> [st.heap EXCEPT ![ball1].color = new_color,
                                               ![ball2].color = new_color],
                      nColors |-> st.nColors + 1,
                      processed_pairs |-> st.processed_pairs \cup {pair_id},
                      log |-> Append(st.log, [pair |-> <<ball1, ball2>>,
                                              mixed |-> TRUE,
                                              before |-> <<c1, c2>>,
                                              after |-> <<new_color, new_color>>])]
         IN  IF is_colliding(st.heap[ball1], st.heap[ball2])
                /\ pair_id \notin st.processed_pairs
             THEN UNION {Collide(pairs, k + 1, list, Mixed(rgb)) :
                           rgb \in MixColors(c1.rgb, c2.rgb)}
             ELSE Collide(pairs, k + 1, list, Skip)

\* _handle_ball_collisions
handle_ball_collisions(list, h, n) ==
    Collide(Pairs(Len(list)), 1, list,
            [heap |-> h, nColors |-> n, processed_pairs |-> {}, log |-> <<>>])

\* update(dt=1.0)
update(dt) ==
    /\ LET moved == UpdateLoop(1, balls, heap, [i \in 1..Len(heap) |-> 0], dt,
                               screen_width, screen_height, delete_zone)
       IN  /\ balls' = moved.balls
           /\ advanced' = moved.advanced
           /\ \E st \in handle_ball_collisions(moved.balls, moved.heap, nColors) :
                 /\ heap' = st.heap
                 /\ nColors' = st.nColors
                 /\ collLog' = st.log
    /\ tickStart' = balls
    /\ Called("update", <<dt>>, None)
    /\ UNCHANGED <<screen_width, screen_height, delete_zone, inventory, suckTime, mixIn, mixOut>>

Next ==
    \/ \E dt \in DtValues : update(dt)
    \/ \E p \in AddPositions, c \in RandomColors : add_ball(p[1], p[2], c)
    \/ \E b \in 1..Len(heap) : remove_ball(b)
    \/ \E p \in SuckPositions : suck_ball(p[1], p[2])
    \/ \E p \in SpitPositions, d \in SpitDirs : spit_ball(p[1], p[2], d)
    \/ clear_inventory
    \/ \E s \in ScreenSizes : set_screen_size(s[1], s[2])

Spec == Init /\ [][Next]_vars

---------------------------------------------------------------------------
(* _mix_colors as a pure function: the arguments are drawn in InitMix, the *)
(* one action applies it.                                                  *)

ChanValues == {(255 * k) \div ChanLevels : k \in 0..ChanLevels} \cup {200, 210}

MixInputs == Triples(ChanValues, ChanValues, ChanValues)

InitMix ==
    /\ screen_width = Px(200)
    /\ screen_height = Px(150)
    /\ delete_zone = DeleteZone(Px(200) - ZoneSize, 0, ZoneSize, ZoneSize)
    /\ heap = <<>>
    /\ balls = <<>>
    /\ inventory = <<>>
    /\ nColors = 0
    /\ nCalls = 0
    /\ suckTime = <<>>
    /\ prevSucked = None
    /\ lastOp = "init"
    /\ lastArg = <<>>
    /\ ret = None
    /\ tickStart = <<>>
    /\ advanced = <<>>
    /\ collLog = <<>>
    /\ mixIn \in MixInputs \X MixInputs
    /\ mixOut = <<>>

mix_colors ==
    /\ mixOut = <<>>
    /\ \E out \in MixColors(mixIn[1], mixIn[2]) : mixOut' = out
    /\ UNCHANGED <<mixIn, gameVars>>

NextMix == mix_colors

SpecMix == InitMix /\ [][NextMix]_vars

---------------------------------------------------------------------------
(* Properties *)

\* membership by identity
InList(list, b) == \E i \in 1..Len(list) : list[i] = b

NoDuplicates(list) == \A i, j \in 1..Len(list) : list[i] = list[j] => i = j

InBounds(b) ==
    /\ b.radius <= b.x /\ b.x <= screen_width - b.radius
    /\ b.radius <= b.y /\ b.y <= screen_height - b.radius

\* C1: after every update, every ball still in balls lies within the walls:
\* radius <= x <= screen_width - radius and radius <= y <= screen_height - radius.
C1_BallsInBoundsAfterUpdate ==
    lastOp = "update" => \A i \in 1..Len(balls) : InBounds(heap[balls[i]])

\* C2: no ball is in both balls and inventory, and no ball occurs twice in
\* balls or twice in inventory.
C2_ExclusiveOwnership ==
    /\ NoDuplicates(balls)
    /\ NoDuplicates(inventory)
    /\ Range(balls) \cap Range(inventory) = {}

\* a spit_ball has put a ball back among others while the inventory still
\* holds one
C2_Witness ==
    /\ lastOp = "spit_ball" /\ ret # None
    /\ Len(balls) >= 2 /\ Len(inventory) >= 1

\* C3: spit_ball on a non-empty inventory returns the ball sucked most
\* recently among those in the inventory, and removes exactly that ball.
C3_InventoryIsStack ==
    [][(lastOp' = "spit_ball" /\ inventory # <<>>) =>
          /\ InList(inventory, ret')
          /\ \A b \in Range(inventory) \ {ret'} : suckTime[b] < suckTime[ret']
          /\ Range(inventory') = Range(inventory) \ {ret'}
          /\ Len(inventory') = Len(inventory) - 1]_vars

\* a spit_ball returned the later-sucked of two balls, the earlier one stays
C3_Witness ==
    /\ lastOp = "spit_ball" /\ ret # None
    /\ inventory # <<>>
    /\ \A b \in Range(inventory) : 0 < suckTime[b] /\ suckTime[b] < suckTime[ret]

\* C4: when suck_ball returns B, B is in inventory and not in balls; a
\* spit_ball(mx, my) right after it returns B, puts B in balls and not in
\* inventory at exactly (mx, my), and leaves every other ball's membership
\* and position as they were.
C4_SuckSpitRoundTrip ==
    /\ []((lastOp = "suck_ball" /\ ret # None) =>
             InList(inventory, ret) /\ ~InList(balls, ret))
    /\ [][(lastOp = "suck_ball" /\ ret # None /\ lastOp' = "spit_ball") =>
             /\ ret' = ret
             /\ InList(balls', ret) /\ ~InList(inventory', ret)
             /\ heap'[ret].x = lastArg'[1] /\ heap'[ret].y = lastArg'[2]
             /\ \A o \in (1..Len(heap)) \ {ret} :
                   /\ heap'[o].x = heap[o].x /\ heap'[o].y = heap[o].y
                   /\ InList(balls', o) <=> InList(balls, o)
                   /\ InList(inventory', o) <=> InList(inventory, o)]_vars

\* a spit_ball right after a successful suck_ball, with other balls around
C4_Witness ==
    /\ lastOp = "spit_ball" /\ prevSucked # None /\ ret = prevSucked
    /\ Len(balls) >= 2 /\ Len(inventory) >= 1
    /\ heap[ret].x = lastArg[1] /\ heap[ret].y = lastArg[2]

\* C5: when update returns, no ball remaining in balls has its centre inside
\* the closed delete-zone rectangle.
C5_NoBallLeftInDeleteZone ==
    lastOp = "update" => \A i \in 1..Len(balls) : ~contains(delete_zone, heap[balls[i]])

\* C6: remove_ball(ball) removes exactly the ball passed (by identity) when
\* it is in balls and changes nothing else; when it is not in balls the call
\* changes nothing.
C6_RemoveByIdentity ==
    [][lastOp' = "remove_ball" =>
          LET b == lastArg'[1]
          IN  /\ inventory' = inventory
              /\ heap' = heap
              /\ IF InList(balls, b)
                 THEN \E i \in 1..Len(balls) : balls[i] = b /\ balls' = RemoveAt(balls, i)
                 ELSE balls' = balls]_vars

\* C7: suck_ball(mx, my, radius) takes the ball at the smallest distance
\* among those strictly closer than radius, the first in collection order on
\* ties, moves exactly it from balls to the end of inventory and returns it;
\* with no ball strictly closer than radius it returns nothing and changes
\* neither collection.
C7_SuckTakesClosest ==
    [][lastOp' = "suck_ball" =>
          LET D(b) == DistSq(heap[b].x, heap[b].y, lastArg'[1], lastArg'[2])
              InRange(b) == D(b) < SuckRadius * SuckRadius
          IN  IF \E i \in 1..Len(balls) : InRange(balls[i])
              THEN \E i \in 1..Len(balls) :
                      /\ ret' = balls[i]
                      /\ InRange(balls[i])
                      /\ \A j \in 1..Len(balls) : D(balls[j]) >= D(balls[i])
                      /\ \A j \in 1..(i - 1) : D(balls[j]) > D(balls[i])
                      /\ balls' = RemoveAt(balls, i)
                      /\ inventory' = Append(inventory, balls[i])
                      /\ heap' = heap
              ELSE ret' = None /\ balls' = balls /\ inventory' = inventory]_vars

\* a suck_ball took one of two balls at the same distance from the mouse
C7_Witness ==
    /\ lastOp = "suck_ball" /\ ret # None
    /\ \E i \in 1..Len(balls) :
          /\ heap[balls[i]].x # heap[ret].x
          /\ DistSq(heap[balls[i]].x, heap[balls[i]].y, lastArg[1], lastArg[2])
                = DistSq(heap[ret].x, heap[ret].y, lastArg[1], lastArg[2])

Mixes == {k \in 1..Len(collLog) : collLog[k].mixed}

AllColliding ==
    \A i, j \in 1..Len(balls) :
        i # j => is_colliding(heap[balls[i]], heap[balls[j]])

\* C8: the collision pass of an update examines every unordered pair of
\* distinct active balls exactly once and calls _mix_colors exactly once for
\* each pair that collides and for no other (3 calls for three mutually
\* overlapping balls); right after a pair is processed both balls carry the
\* same, newly mixed colour.
C8_EachPairOnce ==
    lastOp = "update" =>
        /\ 2 * Len(collLog) = Len(balls) * (Len(balls) - 1)
        /\ \A k \in 1..Len(collLog) :
              LET e == collLog[k]
              IN  /\ e.pair[1] # e.pair[2]
                  /\ InList(balls, e.pair[1]) /\ InList(balls, e.pair[2])
                  /\ \A l \in 1..Len(collLog) :
                        {collLog[l].pair[1], collLog[l].pair[2]} = {e.pair[1], e.pair[2]}
                           => l = k
                  /\ e.mixed <=> is_colliding(heap[e.pair[1]], heap[e.pair[2]])
                  /\ e.mixed =>
                        /\ e.after[1] = e.after[2]
                        /\ e.after[1].obj \notin {e.before[1].obj, e.before[2].obj}
                        /\ e.after[1].rgb \in MixColors(e.before[1].rgb, e.before[2].rgb)
        /\ (Len(balls) = 3 /\ AllColliding) => Cardinality(Mixes) = 3

\* an update with three mutually overlapping balls and three mixing calls
C8_Witness ==
    /\ lastOp = "update"
    /\ Len(balls) = 3 /\ AllColliding
    /\ Cardinality(Mixes) = 3

\* the near-white test of the claim, on exact rationals: variance < 30 and
\* avg > 200
C9_WashedOut(c) ==
    LET s == c[1] + c[2] + c[3]
    IN  /\ Abs(3 * c[1] - s) + Abs(3 * c[2] - s) + Abs(3 * c[3] - s) < 3 * 30
        /\ s > 3 * 200

\* C9: the colour _mix_colors returns is never near-white (variance < 30 and
\* avg > 200), and each of its channels lies in 0..255.
C9_MixNeverWashedOut ==
    mixOut # <<>> =>
        /\ ~C9_WashedOut(mixOut)
        /\ \A k \in 1..3 : mixOut[k] \in 0..255

\* Color(200,200,200) mixed with Color(210,210,210): the blend is near-white
\* before the correction, and Color(151,151,255) is returned
C9_Witness ==
    /\ mixIn = <<<<200, 200, 200>>, <<210, 210, 210>>>>
    /\ \E m \in Saturated(mixIn[1], mixIn[2]) : C9_WashedOut(m)
    /\ mixOut = <<151, 151, 255>>

\* update with the culling deferred: every ball of the list advanced in
\* order, the balls found in the delete zone removed afterwards
RECURSIVE AdvanceAll(_, _, _, _, _, _)
AdvanceAll(i, list, h, dt, width, height) ==
    IF i > Len(list) THEN h
    ELSE AdvanceAll(i + 1, list,
                    [h EXCEPT ![list[i]] = Advance(h[list[i]], dt, width, height)],
                    dt, width, height)

Moved(a, b) == a.x = b.x /\ a.y = b.y /\ a.vx = b.vx /\ a.vy = b.vy

\* C10: one update advances every ball that is in balls when it starts
\* exactly once, in order, also when earlier balls are culled; the result is
\* that of collecting the balls to remove and removing them after the scan.
C10_EveryBallAdvancedOnce ==
    [][lastOp' = "update" =>
          LET h == AdvanceAll(1, balls, heap, lastArg'[1], screen_width, screen_height)
          IN  /\ \A i \in 1..Len(balls) : advanced'[balls[i]] = 1
              /\ \A b \in 1..Len(heap) : Moved(heap'[b], h[b])
              /\ balls' = SelectSeq(balls, LAMBDA b : ~contains(delete_zone, h[b]))]_vars

====
